---- MODULE Spec2Model ----
(***************************************************************************)
(* hardware-service/main.py: a FastAPI application that turns              *)
(* POST /api/led {"state": n} into one line "LED 0\n" / "LED 1\n" written  *)
(* to a process-wide pyserial handle `ser`.                                *)
(*                                                                         *)
(* set_led is a plain `def` route, so the framework runs each request on   *)
(* a worker thread: several executions of set_led may be in progress at    *)
(* once, all using the one global `ser`.  The module holds no lock.        *)
(*                                                                         *)
(* Strings are sequences of code points, byte strings are sequences of     *)
(* byte values (0..255).                                                   *)
(***************************************************************************)
EXTENDS Integers, Sequences, FiniteSets, TLC

\* ---------------------------------------------------------------- bounds

\* Number of POST /api/led requests the clients issue.
NumReq == 2

\* Seconds a blocked write/flush is observed for before the model stops counting.
MaxWait == 2

Requests == 1 .. NumReq

\* ------------------------------------------------------------- constants

\* serial.Serial(..., timeout=1): pyserial's READ timeout.  write_timeout is
\* not passed, so it keeps its default None: writes block without limit.
timeout == 1

\* ------------------------------------------------------- pure functions

\* Code points used by the program's strings.
SP == 32
LF == 10
MINUS == 45
ZERO == 48

\* str.strip() with no argument removes these from both ends.
Whitespace == {9, 10, 11, 12, 13, 32}

RECURSIVE Digits(_)
\* Decimal digits of a natural number, most significant first.
Digits(n) ==
    IF n < 10 THEN <<ZERO + n>>
    ELSE Digits(n \div 10) \o <<ZERO + (n % 10)>>

\* str(n) as the f-string's {state} placeholder renders an int.
Str(n) == IF n < 0 THEN <<MINUS>> \o Digits(-n) ELSE Digits(n)

\* state = 1 if cmd.state else 0
NormalizeNonNegOnly(n) == IF n > 0 THEN 1 ELSE 0
Normalize(n) == IF n # 0 THEN 1 ELSE 0

\* command_str = f"LED {state}\n"
CommandStr(state) == <<76, 69, 68, SP>> \o Str(state) \o <<LF>>

\* UTF-8 of one code point (one byte below 128, two bytes below 2048).
EncodeChar(c) ==
    IF c < 128 THEN <<c>>
    ELSE <<192 + (c \div 64), 128 + (c % 64)>>

RECURSIVE Encode(_)
\* command_str.encode("utf-8")
Encode(s) ==
    IF s = <<>> THEN <<>>
    ELSE EncodeChar(Head(s)) \o Encode(Tail(s))

RECURSIVE LStrip(_)
LStrip(s) ==
    IF s # <<>> /\ Head(s) \in Whitespace THEN LStrip(Tail(s)) ELSE s

RECURSIVE RStrip(_)
RStrip(s) ==
    IF s # <<>> /\ s[Len(s)] \in Whitespace
    THEN RStrip(SubSeq(s, 1, Len(s) - 1))
    ELSE s

\* command_str.strip()
Strip(s) == RStrip(LStrip(s))

\* ------------------------------------------------- request validation

\* A JSON request body, by what its "state" member is.
\*   t = "missing"  no "state" member          t = "null"  null
\*   t = "int"      the integer n              t = "bool"  true (n=1) / false (n=0)
\*   t = "str"      the string s
Body(t, n, s) == [t |-> t, n |-> n, s |-> s]

Bodies ==
    { Body("missing", 0, <<>>),
      Body("str", 0, <<97, 98, 99>>),          \* "abc"
      Body("str", 0, <<ZERO + 1>>),            \* "1"
      Body("int", 0, <<>>),
      Body("int", 7, <<>>),
      Body("int", -2147483647, <<>>) }         \* -(2^31 - 1)

IsDigit(c) == c >= ZERO /\ c <= ZERO + 9

RECURSIVE DigitsValue(_)
DigitsValue(s) ==
    IF s = <<>> THEN 0
    ELSE 10 * DigitsValue(SubSeq(s, 1, Len(s) - 1)) + (s[Len(s)] - ZERO)

\* Does the string read as a decimal integer (optional sign, digits)?
IsIntString(s) ==
    LET u == Strip(s)
        v == IF u # <<>> /\ Head(u) = MINUS THEN Tail(u) ELSE u
    IN  v # <<>> /\ \A i \in 1 .. Len(v) : IsDigit(v[i])

IntOfString(s) ==
    LET u == Strip(s)
    IN  IF u # <<>> /\ Head(u) = MINUS THEN - DigitsValue(Tail(u))
        ELSE DigitsValue(u)

\* LedCommand(BaseModel) with `state: int`.  BaseModel validates in its
\* default (lax) mode: an int is taken as is, and a bool or a string that
\* reads as an integer is COERCED to int; anything else, or no "state" at
\* all, is a validation error (the framework answers 422).
Valid(b) ==
    \/ b.t = "int"
    \/ b.t = "bool"
    \/ b.t = "str" /\ IsIntString(b.s)

\* cmd.state of the parsed LedCommand.
StateOf(b) == IF b.t = "str" THEN IntOfString(b.s) ELSE b.n

\* ----------------------------------------------------------------- state

VARIABLES
    proc,        \* "loading" | "serving" | "crashed" | "stopped"
    ser,         \* the global handle: "none" | "open"
    opens,       \* how many times serial.Serial(...) has been called
    dev,         \* the device: "ok" | "stalled" (accepts nothing) | "gone"
    wire,        \* bytes the device has accepted, in order
    pc,          \* per request: "idle" | "rejected" | "write" | "flush" | "done" | "failed"
    body,        \* per request: the JSON body it carried
    cmd,         \* per request: cmd.state after validation
    d,           \* per request: bytes ser.write still has to write
    sent,        \* per request: bytes it has put on the wire
    writeCalls,  \* per request: calls of ser.write
    flushCalls,  \* per request: calls of ser.flush
    flushed,     \* per request: ser.flush() returned normally
    waited,      \* per request: seconds spent blocked in the current call
    resp         \* per request: the HTTP response

vars == <<proc, ser, opens, dev, wire, pc, body, cmd, d, sent,
          writeCalls, flushCalls, flushed, waited, resp>>

reqVars == <<pc, body, cmd, d, sent, writeCalls, flushCalls, flushed, waited, resp>>

NoBody == Body("none", 0, <<>>)
Response(code, status, s) == [code |-> code, status |-> status, sent |-> s]
NoResponse == Response(0, "", <<>>)

Init ==
    /\ proc = "loading"
    /\ ser = "none"
    /\ opens = 0
    /\ dev = "ok"
    /\ wire = <<>>
    /\ pc = [r \in Requests |-> "idle"]
    /\ body = [r \in Requests |-> NoBody]
    /\ cmd = [r \in Requests |-> 0]
    /\ d = [r \in Requests |-> <<>>]
    /\ sent = [r \in Requests |-> <<>>]
    /\ writeCalls = [r \in Requests |-> 0]
    /\ flushCalls = [r \in Requests |-> 0]
    /\ flushed = [r \in Requests |-> FALSE]
    /\ waited = [r \in Requests |-> 0]
    /\ resp = [r \in Requests |-> NoResponse]

\* --------------------------------------------------------------- startup

\* ser = serial.Serial(SERIAL_PORT, BAUD_RATE, timeout=1) at import: the
\* port is opened, and only then can uvicorn serve `app`.
Open ==
    /\ proc = "loading"
    /\ ser' = "open"
    /\ opens' = opens + 1
    /\ proc' = "serving"
    /\ UNCHANGED <<dev, wire>>
    /\ UNCHANGED reqVars

\* A bug that would catch the exception and serve without a port.
OpenFailServeAnyway ==
    /\ proc = "loading"
    /\ opens' = opens + 1
    /\ proc' = "serving"
    /\ UNCHANGED <<ser, dev, wire>>
    /\ UNCHANGED reqVars

\* serial.Serial(...) raises SerialException (no such device, busy,
\* permission denied): the import fails and the process ends.
OpenFail ==
    /\ proc = "loading"
    /\ opens' = opens + 1
    /\ proc' = "crashed"
    /\ UNCHANGED <<ser, dev, wire>>
    /\ UNCHANGED reqVars

\* The process ends (normal termination or a signal).  The module
\* registers no shutdown handler and never calls ser.close().
Shutdown ==
    /\ proc = "serving"
    /\ proc' = "stopped"
    /\ UNCHANGED <<ser, opens, dev, wire>>
    /\ UNCHANGED reqVars

\* ---------------------------------------------------------------- device

Stall ==
    /\ proc = "serving" /\ dev = "ok"
    /\ dev' = "stalled"
    /\ UNCHANGED <<proc, ser, opens, wire>>
    /\ UNCHANGED reqVars

Resume ==
    /\ proc = "serving" /\ dev = "stalled"
    /\ dev' = "ok"
    /\ UNCHANGED <<proc, ser, opens, wire>>
    /\ UNCHANGED reqVars

Unplug ==
    /\ proc = "serving" /\ dev # "gone"
    /\ dev' = "gone"
    /\ UNCHANGED <<proc, ser, opens, wire>>
    /\ UNCHANGED reqVars

\* --------------------------------------------------------------- set_led

\* POST /api/led arrives.  The body is parsed into LedCommand; on a
\* validation error the framework answers 422 and set_led is not called.
\* Otherwise set_led runs lines 110-123 up to the call of ser.write, all of
\* it local to the request.  Requests are numbered in the order they arrive.
Post(r, b) ==
    /\ proc = "serving"
    /\ pc[r] = "idle"
    /\ \A q \in Requests : q < r => pc[q] # "idle"
    /\ body' = [body EXCEPT ![r] = b]
    /\ IF Valid(b)
       THEN /\ cmd' = [cmd EXCEPT ![r] = StateOf(b)]
            /\ d' = [d EXCEPT ![r] = Encode(CommandStr(Normalize(StateOf(b))))]
            /\ writeCalls' = [writeCalls EXCEPT ![r] = 1]
            /\ pc' = [pc EXCEPT ![r] = "write"]
            /\ resp' = resp
       ELSE /\ pc' = [pc EXCEPT ![r] = "rejected"]
            /\ resp' = [resp EXCEPT ![r] = Response(422, "error", <<>>)]
            /\ UNCHANGED <<cmd, d, writeCalls>>
    /\ UNCHANGED <<proc, ser, opens, dev, wire, sent, flushCalls, flushed, waited>>

\* Inside ser.write: one os.write on the non-blocking descriptor accepts the
\* first n of the remaining bytes (n >= 1; fewer than all when the output
\* buffer is short of room), and the loop goes on with the rest.  When none
\* are left ser.write returns and set_led calls ser.flush().
WriteChunk(r, n) ==
    /\ proc = "serving" /\ ser = "open" /\ dev = "ok"
    /\ pc[r] = "write"
    /\ n \in 1 .. Len(d[r])
    /\ wire' = wire \o SubSeq(d[r], 1, n)
    /\ sent' = [sent EXCEPT ![r] = @ \o SubSeq(d[r], 1, n)]
    /\ d' = [d EXCEPT ![r] = SubSeq(@, n + 1, Len(@))]
    /\ waited' = [waited EXCEPT ![r] = 0]
    /\ IF n = Len(d[r])
       THEN /\ pc' = [pc EXCEPT ![r] = "flush"]
            /\ flushCalls' = [flushCalls EXCEPT ![r] = @ + 1]
       ELSE UNCHANGED <<pc, flushCalls>>
    /\ UNCHANGED <<proc, ser, opens, dev, body, cmd, writeCalls, flushed, resp>>

\* A bug that would retry the write after a failure.
WriteFailRetry(r) ==
    /\ proc = "serving"
    /\ pc[r] = "write"
    /\ dev = "gone" \/ ser # "open"
    /\ writeCalls[r] < 3
    /\ writeCalls' = [writeCalls EXCEPT ![r] = @ + 1]
    /\ d' = [d EXCEPT ![r] = Encode(CommandStr(Normalize(cmd[r])))]
    /\ UNCHANGED <<proc, ser, opens, dev, wire, pc, body, cmd, sent,
                   flushCalls, flushed, waited, resp>>

\* ser.write raises (the device vanished, or the port is not open): the
\* exception leaves set_led and the framework answers 500.
WriteFail(r) ==
    /\ proc = "serving"
    /\ pc[r] = "write"
    /\ dev = "gone" \/ ser # "open"
    /\ pc' = [pc EXCEPT ![r] = "failed"]
    /\ resp' = [resp EXCEPT ![r] = Response(500, "error", <<>>)]
    /\ UNCHANGED <<proc, ser, opens, dev, wire, body, cmd, d, sent,
                   writeCalls, flushCalls, flushed, waited>>

\* ser.flush() (tcdrain) returns once the output is transmitted, and
\* set_led returns {"status": "ok", "sent": command_str.strip()}.
Flush(r) ==
    /\ proc = "serving" /\ ser = "open" /\ dev = "ok"
    /\ pc[r] = "flush"
    /\ flushed' = [flushed EXCEPT ![r] = TRUE]
    /\ waited' = [waited EXCEPT ![r] = 0]
    /\ pc' = [pc EXCEPT ![r] = "done"]
    /\ resp' = [resp EXCEPT ![r] =
                   Response(200, "ok", Strip(CommandStr(Normalize(cmd[r]))))]
    /\ UNCHANGED <<proc, ser, opens, dev, wire, body, cmd, d, sent,
                   writeCalls, flushCalls>>

\* A bug that would swallow the flush error and acknowledge anyway.
FlushFailSwallowed(r) ==
    /\ proc = "serving"
    /\ pc[r] = "flush"
    /\ dev = "gone"
    /\ pc' = [pc EXCEPT ![r] = "done"]
    /\ resp' = [resp EXCEPT ![r] =
                   Response(200, "ok", Strip(CommandStr(Normalize(cmd[r]))))]
    /\ UNCHANGED <<proc, ser, opens, dev, wire, body, cmd, d, sent,
                   writeCalls, flushCalls, flushed, waited>>

\* ser.flush() raises: the exception leaves set_led, the framework answers 500.
FlushFail(r) ==
    /\ proc = "serving"
    /\ pc[r] = "flush"
    /\ dev = "gone"
    /\ pc' = [pc EXCEPT ![r] = "failed"]
    /\ resp' = [resp EXCEPT ![r] = Response(500, "error", <<>>)]
    /\ UNCHANGED <<proc, ser, opens, dev, wire, body, cmd, d, sent,
                   writeCalls, flushCalls, flushed, waited>>

Blocked(r) == pc[r] \in {"write", "flush"}

\* One more second goes by with the device accepting nothing: every request
\* inside ser.write (select with no timeout, write_timeout being None) or
\* inside ser.flush (tcdrain) has been blocked for a second longer.
Tick ==
    /\ proc = "serving" /\ dev = "stalled"
    /\ \E r \in Requests : Blocked(r) /\ waited[r] < MaxWait
    /\ waited' = [r \in Requests |->
                     IF Blocked(r) /\ waited[r] < MaxWait
                     THEN waited[r] + 1 ELSE waited[r]]
    /\ UNCHANGED <<proc, ser, opens, dev, wire, pc, body, cmd, d, sent,
                   writeCalls, flushCalls, flushed, resp>>

\* ser.write hands the whole line to the device in one os.write.
WriteAll(r) == WriteChunk(r, Len(d[r]))

\* os.write accepts only the first n bytes; the rest follows in later calls.
WritePartial(r, n) == n < Len(d[r]) /\ WriteChunk(r, n)

Next ==
    \/ Open
    \/ OpenFail
    \/ Shutdown
    \/ Unplug
    \/ \E r \in Requests : \E b \in Bodies : Post(r, b)
    \/ \E r \in Requests : WriteAll(r)
    \/ \E r \in Requests : WriteFail(r)
    \/ \E r \in Requests : Flush(r)
    \/ \E r \in Requests : FlushFail(r)

\* The program from startup to its end, its requests running concurrently,
\* with a device that takes each write whole or vanishes.
Spec == Init /\ [][Next]_vars

FullNext ==
    \/ Next
    \/ \E r \in Requests : \E n \in 1 .. Len(d[r]) : WritePartial(r, n)
    \/ Stall
    \/ Resume
    \/ Tick

\* The same with a device that may take a write in parts or stop accepting
\* bytes for a while, and with the clock.
FullSpec == Init /\ [][FullNext]_vars

\* ---------------------------------------------------------- the claims

\* The two lines of the wire protocol, as bytes, and the two acknowledged
\* texts, as code points.
LineOff == <<76, 69, 68, 32, 48, 10>>
LineOn == <<76, 69, 68, 32, 49, 10>>
TextOff == <<76, 69, 68, 32, 48>>
TextOn == <<76, 69, 68, 32, 49>>

IsPrefix(s, t) == Len(s) <= Len(t) /\ SubSeq(t, 1, Len(s)) = s

RECURSIVE IsLines(_)
\* s is a concatenation of complete command lines.
IsLines(s) ==
    \/ s = <<>>
    \/ /\ Len(s) >= Len(LineOff)
       /\ SubSeq(s, 1, Len(LineOff)) \in {LineOff, LineOn}
       /\ IsLines(SubSeq(s, Len(LineOff) + 1, Len(s)))

RECURSIVE CountByte(_, _)
CountByte(s, b) ==
    IF s = <<>> THEN 0
    ELSE (IF Head(s) = b THEN 1 ELSE 0) + CountByte(Tail(s), b)

Arrived == {r \in Requests : pc[r] # "idle"}

\* C1: whenever no request is in the middle of its write/flush and none has
\* failed, the bytes on the wire are a concatenation of complete command
\* lines: the lines of concurrent requests are never interleaved.
C1_NoInterleaving ==
    (\A r \in Requests : pc[r] \in {"idle", "rejected", "done"})
        => IsLines(wire)

\* C2: a request writes nothing but (a prefix of) "LED 0\n" or "LED 1\n";
\* one that succeeds with state n has written exactly "LED 0\n" and is
\* answered {"status": "ok", "sent": "LED 0"} when n = 0, and exactly
\* "LED 1\n" with "sent": "LED 1" when n # 0; no other text is returned.
C2_ExactLine ==
    \A r \in Requests :
        /\ IsPrefix(sent[r], LineOff) \/ IsPrefix(sent[r], LineOn)
        /\ resp[r].sent \in {<<>>, TextOff, TextOn}
        /\ pc[r] = "done" =>
              IF cmd[r] = 0
              THEN sent[r] = LineOff /\ resp[r] = Response(200, "ok", TextOff)
              ELSE sent[r] = LineOn /\ resp[r] = Response(200, "ok", TextOn)

\* C2 witness: a request with a negative state of large magnitude and one
\* with state zero have both succeeded.
C2_Witness ==
    /\ \E r \in Requests : pc[r] = "done" /\ cmd[r] < -1000
    /\ \E r \in Requests : pc[r] = "done" /\ cmd[r] = 0

\* C3: the "ok" acknowledgement is returned only by a request whose whole
\* line was written and whose flush returned without error; a request whose
\* write or flush failed is answered with a server error, never with "ok".
C3_AckOnlyAfterFlush ==
    \A r \in Requests :
        /\ resp[r].status = "ok" =>
              /\ pc[r] = "done"
              /\ d[r] = <<>>
              /\ Len(sent[r]) = Len(LineOff)
              /\ flushed[r]
        /\ pc[r] = "failed" => resp[r] = Response(500, "error", <<>>)
        /\ pc[r] \in {"write", "flush"} => resp[r] = NoResponse

\* C3 witness: one request failed in its flush after writing its whole
\* line, and another was acknowledged.
C3_Witness ==
    /\ \E r \in Requests :
          pc[r] = "failed" /\ flushCalls[r] = 1 /\ d[r] = <<>>
    /\ \E r \in Requests : resp[r].status = "ok" /\ flushed[r]

\* C4: a request is never blocked in its write or flush for longer than the
\* configured timeout.
C4_WriteBounded ==
    \A r \in Requests : Blocked(r) => waited[r] <= timeout

\* C5: the port is opened at most once, and before anything else: a request
\* is only ever handled, and a byte only ever written, by a process whose one
\* open succeeded; a process whose open failed handles no request.
C5_OpenedOnceBeforeServing ==
    /\ opens <= 1
    /\ proc = "loading" => opens = 0
    /\ proc \in {"serving", "stopped"} => ser = "open" /\ opens = 1
    /\ proc = "crashed" => ser = "none"
    /\ \A r \in Requests : pc[r] # "idle" => ser = "open" /\ opens = 1
    /\ wire # <<>> => ser = "open"

\* C5 witness: requests have been served, one of them to its acknowledgement,
\* on the connection opened at startup.
C5_Witness ==
    /\ opens = 1 /\ ser = "open"
    /\ wire # <<>>
    /\ \A r \in Requests : pc[r] \in {"done", "rejected"}

\* C6: a request calls ser.write at most once and ser.flush at most once
\* (exactly once each when it succeeds), a failure is not retried, and the
\* wire never carries more line terminators, nor more bytes than whole lines,
\* than requests were received.
C6_OneTransportCall ==
    /\ \A r \in Requests :
        /\ writeCalls[r] <= 1 /\ flushCalls[r] <= 1
        /\ flushCalls[r] <= writeCalls[r]
        /\ pc[r] = "done" => writeCalls[r] = 1 /\ flushCalls[r] = 1
        /\ pc[r] \in {"idle", "rejected"} => writeCalls[r] = 0 /\ sent[r] = <<>>
        /\ Len(sent[r]) <= Len(LineOff)
    /\ CountByte(wire, LF) <= Cardinality(Arrived)
    /\ Len(wire) <= Len(LineOff) * Cardinality(Arrived)

\* C6 witness: a request whose write failed was answered with the error
\* after its single call, while another request's line is on the wire.
C6_Witness ==
    /\ \E r \in Requests :
          pc[r] = "failed" /\ writeCalls[r] = 1 /\ flushCalls[r] = 0
    /\ \E r \in Requests : pc[r] = "done"
    /\ CountByte(wire, LF) = 1

\* C8: a request whose "state" is missing or is not an integer is rejected
\* by validation: set_led does not run for it and it writes nothing.
C8_NonIntegerRejected ==
    \A r \in Requests :
        pc[r] # "idle" /\ body[r].t # "int"
            => pc[r] = "rejected" /\ sent[r] = <<>> /\ writeCalls[r] = 0

\* C9: once the process has ended, the connection it opened is closed.
C9_ClosedAtShutdown ==
    proc = "stopped" => ser = "closed"

\* C10: a request puts bytes on the wire only when no other request's write
\* is in progress (it waits for that write to finish first).
C10_SecondWaits ==
    [][\A r \in Requests :
          sent'[r] # sent[r] =>
              \A q \in Requests \ {r} :
                  ~(pc[q] = "write" /\ sent[q] # <<>>)]_vars

====
